---- MODULE Spec2Model ----
(***************************************************************************)
(* A model of b.py, the terminal viewer for `ccusage blocks --json`.       *)
(*                                                                         *)
(* Timestamps are the fields of an ISO-8601 string with offset zero:       *)
(* [d, h, m, s] with d a day number.  A cost is an exact number of cents.  *)
(* A model name is the sequence of its hyphen-separated words, and the     *)
(* substring tests of the source ('opus' in model) are word tests.         *)
(* An optional JSON value (actualEndTime) is <<>> for null, <<v>> for v.   *)
(* The ANSI colour codes (--no-color) are not part of a line.              *)
(***************************************************************************)
EXTENDS Integers, Sequences, FiniteSets, TLC

VARIABLES
    json_data,        \* the argument of the last load_from_json call
    blocks,           \* ClaudeCodeViewer.blocks
    daily_data,       \* ClaudeCodeViewer.daily_data, in key insertion order
    loadResult,       \* how the last load ended: "none" | "returned" |
                      \* "KeyError" | "AttributeError"
    bar_blocks,       \* the blocks argument of the last _get_timeline_bar call
    bar_width,        \* its width argument
    timeline,         \* its timeline list before the marker overlay
    marked_timeline,  \* its return value
    bar_chars,        \* the bar_char chosen for each block it got through
    barResult,        \* "none" | "returned" | "IndexError"
    session_calls,    \* the get_current_session_info calls made on the viewer
    args,             \* the parsed command line of main
    source,           \* what main finds when it reads its input
    now,              \* what datetime.datetime.now() returns
    pc,               \* main's position
    stdout,           \* lines printed to standard output
    stderr,           \* lines printed to the error stream
    exit_code         \* -1 while the process runs

vars == <<json_data, blocks, daily_data, loadResult, bar_blocks, bar_width,
          timeline, marked_timeline, bar_chars, barResult, session_calls, args,
          source, now, pc, stdout, stderr, exit_code>>

viewerVars == <<blocks, daily_data, loadResult>>
barVars == <<bar_blocks, bar_width, timeline, marked_timeline, bar_chars,
             barResult, session_calls>>
mainVars == <<args, source, now, pc, stdout, stderr, exit_code>>

----------------------------------------------------------------------------
(* Bounds *)

MaxBlocks == 2
MaxBarBlocks == 3
MaxMainBlocks == 2
MaxDays == 12
MaxCalls == 2

----------------------------------------------------------------------------
(* Generic helpers *)

Range(s) == {s[i] : i \in 1..Len(s)}

RECURSIVE SeqSum(_)
SeqSum(s) == IF s = <<>> THEN 0 ELSE s[1] + SeqSum(Tail(s))

Max2(a, b) == IF a >= b THEN a ELSE b
Min2(a, b) == IF a <= b THEN a ELSE b

SeqsUpTo(S, n) == UNION {[1..k -> S] : k \in 0..n}

\* Mutant of PyIntDiv: the quotient rounded down
PyIntDivFloor(a, b) == a \div b

\* Python's int(a / b) for b > 0: the quotient truncated toward zero
PyIntDiv(a, b) == IF a >= 0 THEN a \div b ELSE -((-a) \div b)

----------------------------------------------------------------------------
(* Timestamps *)

TS(d, h, m, s) == [d |-> d, h |-> h, m |-> m, s |-> s]

\* datetime.fromisoformat(...): the instant, in seconds
FromIsoFormat(ts) == ((ts.d * 24 + ts.h) * 60 + ts.m) * 60 + ts.s

\* dt.strftime('%Y-%m-%d %H:%M'): the seconds are dropped
StrfTime(ts) == [date |-> ts.d, hour |-> ts.h, minute |-> ts.m]

----------------------------------------------------------------------------
(* Model names *)

Contains(model, word) == \E i \in 1..Len(model) : model[i] = word

SimplifyModel(model) ==
    IF Contains(model, "opus") THEN <<"opus", "4">>
    ELSE IF Contains(model, "sonnet") THEN <<"sonnet", "4">>
    ELSE IF Contains(model, "synthetic") THEN <<"synthetic">>
    ELSE model

\* list(set(models)) of the simplified names: the distinct names
SimplifiedModels(raw) == {SimplifyModel(raw[i]) : i \in 1..Len(raw)}

----------------------------------------------------------------------------
(* load_from_json *)

AllKeys == {"id", "startTime", "endTime", "actualEndTime", "isActive",
            "isGap", "entries", "totalTokens", "costUSD", "models"}

\* The keys load_from_json looks up in a record, in the order of the code:
\* isGap first; nothing more for a gap; endTime only when actualEndTime is
\* null.
KeysRead(bd) ==
    IF "isGap" \notin bd.keys THEN {"isGap"}
    ELSE IF bd.isGap THEN {"isGap"}
    ELSE IF "startTime" \notin bd.keys THEN {"isGap", "startTime"}
    ELSE IF "actualEndTime" \notin bd.keys
         THEN {"isGap", "startTime", "actualEndTime"}
    ELSE (AllKeys \ {"endTime"}) \cup
         (IF bd.actualEndTime = <<>> THEN {"endTime"} ELSE {})

Raises(bd) == ~(KeysRead(bd) \subseteq bd.keys)

EndTimeOf(bd) ==
    IF bd.actualEndTime # <<>> THEN bd.actualEndTime[1] ELSE bd.endTime

DurationMinutes(bd) ==
    PyIntDiv(FromIsoFormat(EndTimeOf(bd)) - FromIsoFormat(bd.startTime), 60)

MakeBlock(bd) ==
    [id               |-> bd.id,
     start_time       |-> StrfTime(bd.startTime),
     end_time         |-> StrfTime(EndTimeOf(bd)),
     actual_end_time  |-> bd.actualEndTime,
     is_active        |-> bd.isActive,
     is_gap           |-> bd.isGap,
     entries          |-> bd.entries,
     total_tokens     |-> bd.totalTokens,
     cost_usd         |-> bd.costUSD,
     models           |-> SimplifiedModels(bd.models),
     duration_minutes |-> DurationMinutes(bd)]

\* Mutant of IsSkipped: gap records are kept
IsSkippedNever(bd) == FALSE

\* if block_data['isGap']: continue
IsSkipped(bd) == bd.isGap

\* The loop of load_from_json over json_data['blocks']: the blocks appended
\* so far, and whether a lookup raised KeyError.
RECURSIVE ParseFrom(_, _, _)
ParseFrom(data, i, acc) ==
    IF i > Len(data) THEN [raised |-> FALSE, blocks |-> acc]
    ELSE IF Raises(data[i]) THEN [raised |-> TRUE, blocks |-> acc]
    ELSE IF IsSkipped(data[i]) THEN ParseFrom(data, i + 1, acc)
    ELSE ParseFrom(data, i + 1, Append(acc, MakeBlock(data[i])))

ParseBlocks(data) == ParseFrom(data, 1, <<>>)

----------------------------------------------------------------------------
(* _group_by_date *)

NewDay(date_str) ==
    [date           |-> date_str,
     blocks         |-> <<>>,
     total_duration |-> 0,
     total_cost     |-> 0,
     total_tokens   |-> 0,
     total_entries  |-> 0,
     models         |-> {}]

\* Mutant of AddToDay: the totals are assigned, not accumulated
AddToDayAssign(day, block) ==
    [day EXCEPT !.blocks         = Append(@, block),
                !.total_duration = block.duration_minutes,
                !.total_cost     = block.cost_usd,
                !.total_tokens   = block.total_tokens,
                !.total_entries  = block.entries,
                !.models         = @ \cup block.models]

AddToDay(day, block) ==
    [day EXCEPT !.blocks         = Append(@, block),
                !.total_duration = @ + block.duration_minutes,
                !.total_cost     = @ + block.cost_usd,
                !.total_tokens   = @ + block.total_tokens,
                !.total_entries  = @ + block.entries,
                !.models         = @ \cup block.models]

HasKey(daily, date_str) == \E k \in 1..Len(daily) : daily[k].date = date_str

KeyIndex(daily, date_str) ==
    CHOOSE k \in 1..Len(daily) : daily[k].date = date_str

AddBlock(daily, block) ==
    LET date_str == block.start_time.date
        d1 == IF HasKey(daily, date_str) THEN daily
              ELSE Append(daily, NewDay(date_str))
        k == KeyIndex(d1, date_str)
    IN [d1 EXCEPT ![k] = AddToDay(@, block)]

RECURSIVE GroupFrom(_, _, _)
GroupFrom(bs, i, daily) ==
    IF i > Len(bs) THEN daily
    ELSE GroupFrom(bs, i + 1, AddBlock(daily, bs[i]))

group_by_date(bs) == GroupFrom(bs, 1, <<>>)

----------------------------------------------------------------------------
(* Inputs of the load specification *)

Opus == <<"claude", "opus", "4">>
Sonnet == <<"claude", "sonnet", "4">>
Synthetic == <<"synthetic">>
Other == <<"gpt", "4">>

BD(id, gap, start, end, actual, entries, tokens, cost, models) ==
    [id |-> id, isGap |-> gap, startTime |-> start, endTime |-> end,
     actualEndTime |-> actual, isActive |-> FALSE, entries |-> entries,
     totalTokens |-> tokens, costUSD |-> cost, models |-> models,
     keys |-> AllKeys]

Without(bd, key) == [bd EXCEPT !.keys = @ \ {key}]

LoadBlockData ==
    { BD("a", FALSE, TS(1, 0, 0, 0), TS(1, 5, 0, 0), <<TS(1, 1, 0, 0)>>,
         3, 1000, 500, <<Opus>>),
      BD("b", FALSE, TS(1, 23, 30, 0), TS(2, 4, 30, 0), <<>>,
         2, 700, 125, <<Sonnet, Opus>>),
      Without(BD("g", TRUE, TS(1, 5, 0, 0), TS(1, 9, 0, 0), <<>>,
                 0, 60, 9, <<Other>>), "models"),
      Without(BD("n", FALSE, TS(2, 10, 0, 30), TS(2, 15, 0, 0),
                 <<TS(2, 9, 59, 0)>>, 1, 40, 7, <<Synthetic>>), "endTime"),
      Without(BD("k", FALSE, TS(2, 12, 0, 0), TS(2, 17, 0, 0),
                 <<TS(2, 12, 45, 59)>>, 5, 90, 33, <<Other>>), "costUSD") }

LoadInputs == SeqsUpTo(LoadBlockData, MaxBlocks)

----------------------------------------------------------------------------
(* The viewer as an object: load_from_json may be called again and again *)

NoArgs == [file |-> FALSE]
NoSource == [kind |-> "none", blocks |-> <<>>]

InitViewer ==
    /\ json_data = <<>>
    /\ blocks = <<>>
    /\ daily_data = <<>>
    /\ loadResult = "none"
    /\ bar_blocks = <<>>
    /\ bar_width = 0
    /\ timeline = <<>>
    /\ marked_timeline = <<>>
    /\ bar_chars = <<>>
    /\ barResult = "none"
    /\ session_calls = <<>>

\* No process: the viewer is used as an object
NoProcess ==
    /\ args = NoArgs
    /\ source = NoSource
    /\ now = TS(1, 0, 0, 0)
    /\ pc = "none"
    /\ stdout = <<>>
    /\ stderr = <<>>
    /\ exit_code = -1

\* ClaudeCodeViewer.__init__
Init == InitViewer /\ NoProcess

\* load_from_json(json_data): self.blocks is reset and refilled; a KeyError
\* leaves the blocks appended so far and the old daily_data.
load_from_json(data) ==
    \E r \in {ParseBlocks(data)} :
        /\ json_data' = data
        /\ blocks' = r.blocks
        /\ daily_data' = IF r.raised THEN daily_data ELSE group_by_date(r.blocks)
        /\ loadResult' = IF r.raised THEN "KeyError" ELSE "returned"

Load ==
    /\ \E data \in LoadInputs : load_from_json(data)
    /\ UNCHANGED <<barVars, mainVars>>

Next == Load

Spec == Init /\ [][Next]_vars

----------------------------------------------------------------------------
(* _get_timeline_bar *)

DefaultWidth == 48

\* start_pos = int((hour * 60 + minute) / 30)
StartPos(block) ==
    PyIntDiv(block.start_time.hour * 60 + block.start_time.minute, 30)

\* duration_blocks = max(1, int(block.duration_minutes / 30))
DurationBlocks(block) == Max2(1, PyIntDiv(block.duration_minutes, 30))

\* block.models[0] raises IndexError on an empty list
\* (reached when len(block.models) > 1 is false)
ModelsIndexError(block) == block.models = {}

\* The if/elif chain choosing bar_char (a key of BAR_CHARS)
BarChar(block) ==
    IF Cardinality(block.models) > 1 THEN "mixed"
    ELSE LET first == CHOOSE model \in block.models : TRUE IN
         IF Contains(first, "synthetic") THEN "synthetic"
         ELSE IF Contains(first, "sonnet") THEN "sonnet"
         ELSE "opus"

\* for i in range(min(duration_blocks, width - start_pos)):
\*     if start_pos + i < width: timeline[start_pos + i] = bar_char
\* pos (from 0) is one of the indices written
Written(block, width, pos) ==
    \E i \in 0..(Min2(DurationBlocks(block), width - StartPos(block)) - 1) :
        StartPos(block) + i < width /\ pos = StartPos(block) + i

\* Mutant of Place: a slot already written keeps its glyph
PlaceFirstWins(tl, block, width) ==
    [s \in 1..Len(tl) |->
        IF Written(block, width, s - 1) /\ tl[s] = "empty"
        THEN BarChar(block) ELSE tl[s]]

Place(tl, block, width) ==
    [s \in 1..Len(tl) |->
        IF Written(block, width, s - 1) THEN BarChar(block) ELSE tl[s]]

\* The loop over the blocks: the timeline, the glyphs chosen, and whether
\* block.models[0] raised
RECURSIVE FillFrom(_, _, _, _, _)
FillFrom(bs, i, tl, chars, width) ==
    IF i > Len(bs) THEN [raised |-> FALSE, timeline |-> tl, chars |-> chars]
    ELSE IF ModelsIndexError(bs[i])
    THEN [raised |-> TRUE, timeline |-> tl, chars |-> chars]
    ELSE FillFrom(bs, i + 1, Place(tl, bs[i], width),
                  Append(chars, BarChar(bs[i])), width)

\* Mutant of MarkTimeline: the marker is laid only over empty slots
MarkTimelineEmptyOnly(tl) ==
    [i \in 1..Len(tl) |->
        IF (i - 1) % 12 = 0 /\ tl[i] = "empty" THEN "marker" ELSE tl[i]]

\* The marker overlay: one glyph per position of timeline_str
MarkTimeline(tl) ==
    [i \in 1..Len(tl) |-> IF (i - 1) % 12 = 0 THEN "marker" ELSE tl[i]]

\* The function up to the overlay
TimelineBar(bs, width) ==
    FillFrom(bs, 1, [s \in 1..width |-> "empty"], <<>>, width)

get_timeline_bar(bs, width) ==
    \E r \in {TimelineBar(bs, width)} :
        /\ bar_blocks' = bs
        /\ bar_width' = width
        /\ timeline' = r.timeline
        /\ marked_timeline' = IF r.raised THEN <<>> ELSE MarkTimeline(r.timeline)
        /\ bar_chars' = r.chars
        /\ barResult' = IF r.raised THEN "IndexError" ELSE "returned"

----------------------------------------------------------------------------
(* Printing.  A print function is the lines it prints, and whether it    *)
(* raised before returning: [raised, out].  A line is a record with its  *)
(* kind and the values formatted into it; rules and blank lines are left *)
(* out, and a list of model names is shown as the set of the names.      *)

Printed(lines) == [raised |-> FALSE, out |-> lines]
RaisedAfter(lines) == [raised |-> TRUE, out |-> lines]

\* r1 and then, unless r1 raised, r2
Then(r1, r2) ==
    IF r1.raised THEN r1
    ELSE [raised |-> r2.raised, out |-> r1.out \o r2.out]

\* _get_weekday: an index into the Monday-first list; day 1 is 2025-09-01,
\* a Monday
get_weekday(date_str) == (date_str - 1) % 7

\* _get_cost_color, the cost in cents
get_cost_color(cost) ==
    IF cost >= 5000 THEN "RED" ELSE IF cost >= 2000 THEN "YELLOW" ELSE "GREEN"

BlockDates(bs) == {bs[i].start_time.date : i \in 1..Len(bs)}

\* print_header
print_header(bs) ==
    Printed(<<[kind |-> "title"]>> \o
            (IF bs # <<>>
             THEN <<[kind |-> "date_range",
                     first |-> CHOOSE d \in BlockDates(bs) : \A e \in BlockDates(bs) : d <= e,
                     last |-> CHOOSE d \in BlockDates(bs) : \A e \in BlockDates(bs) : d >= e]>>
             ELSE <<>>))

\* Mutant of print_stats: no guard for an empty block list
print_stats_unguarded(bs, daily) ==
    Printed(<<[kind |-> "stats", total_duration |-> 0, total_cost |-> 0,
               total_tokens |-> 0, total_entries |-> 0,
               total_blocks |-> Len(bs), days |-> Len(daily)]>>)

\* print_stats; the two means are shown as numerator and denominator, and
\* a zero denominator raises ZeroDivisionError
print_stats(bs, daily) ==
    IF bs = <<>> THEN Printed(<<[kind |-> "no_data"]>>)
    ELSE LET total_duration == SeqSum([k \in 1..Len(daily) |-> daily[k].total_duration])
             total_cost == SeqSum([k \in 1..Len(daily) |-> daily[k].total_cost])
             total_tokens == SeqSum([k \in 1..Len(daily) |-> daily[k].total_tokens])
             total_entries == SeqSum([k \in 1..Len(daily) |-> daily[k].total_entries])
             line == [kind |-> "stats", total_duration |-> total_duration,
                      total_cost |-> total_cost, total_tokens |-> total_tokens,
                      total_entries |-> total_entries, total_blocks |-> Len(bs),
                      days |-> Len(daily)]
         IN IF Len(bs) > 0 /\ Len(daily) = 0 THEN RaisedAfter(<<line>>)
            ELSE Printed(<<line, [kind |-> "means",
                                  block_minutes |-> <<total_duration, Len(bs)>>,
                                  daily_cost |-> <<total_cost, Len(daily)>>]>>)

\* print_legend
print_legend == Printed(<<[kind |-> "legend"]>>)

\* _print_day_row
print_day_row(day) ==
    LET bar == TimelineBar(day.blocks, DefaultWidth) IN
    IF bar.raised THEN RaisedAfter(<<>>)
    ELSE Printed(<<[kind |-> "row", date |-> day.date,
                    weekday |-> get_weekday(day.date),
                    blocks |-> Len(day.blocks),
                    total_duration |-> day.total_duration,
                    timeline_bar |-> MarkTimeline(bar.timeline),
                    total_tokens |-> day.total_tokens,
                    cost_color |-> get_cost_color(day.total_cost),
                    total_cost |-> day.total_cost]>>)

RECURSIVE PrintRowsFrom(_, _)
PrintRowsFrom(days, i) ==
    IF i > Len(days) THEN Printed(<<>>)
    ELSE Then(print_day_row(days[i]), PrintRowsFrom(days, i + 1))

\* Mutant of InsertDesc: an item goes before the items of equal key
InsertDescBeforeEqual(sorted, item) ==
    LET before == {i \in 1..Len(sorted) : sorted[i].key > item.key}
        n == Cardinality(before)
    IN SubSeq(sorted, 1, n) \o <<item>> \o SubSeq(sorted, n + 1, Len(sorted))

\* One insertion of a stable descending sort: the item goes after every
\* item whose key is not smaller
InsertDesc(sorted, item) ==
    LET before == {i \in 1..Len(sorted) : sorted[i].key >= item.key}
        n == Cardinality(before)
    IN SubSeq(sorted, 1, n) \o <<item>> \o SubSeq(sorted, n + 1, Len(sorted))

RECURSIVE SortDescFrom(_, _, _)
SortDescFrom(items, i, sorted) ==
    IF i > Len(items) THEN sorted
    ELSE SortDescFrom(items, i + 1, InsertDesc(sorted, items[i]))

\* sorted(items, key=..., reverse=True) on [key, value] pairs: descending,
\* items of equal key in their original order
SortedReverse(items) == SortDescFrom(items, 1, <<>>)

\* sorted(self.daily_data.items(), key=lambda x: x[1][field], reverse=True)
SortedByCost(daily) ==
    LET s == SortedReverse([k \in 1..Len(daily) |->
                              [key |-> daily[k].total_cost, value |-> daily[k]]])
    IN [k \in 1..Len(s) |-> s[k].value]

SortedByDuration(daily) ==
    LET s == SortedReverse([k \in 1..Len(daily) |->
                              [key |-> daily[k].total_duration, value |-> daily[k]]])
    IN [k \in 1..Len(s) |-> s[k].value]

\* sorted(self.daily_data.keys()) and the lookup of each key: the keys are
\* distinct, so each day goes to the place of its rank
SortedByDate(daily) ==
    [r \in 1..Len(daily) |->
        daily[CHOOSE k \in 1..Len(daily) :
                Cardinality({j \in 1..Len(daily) : daily[j].date <= daily[k].date}) = r]]

\* seq[:n] of Python, n of either sign
PySlicePrefix(seq, n) ==
    IF n >= 0 THEN SubSeq(seq, 1, Min2(n, Len(seq)))
    ELSE SubSeq(seq, 1, Max2(0, Len(seq) + n))

\* The truth value of an optional integer: None and 0 are false
Truthy(opt) == opt # <<>> /\ opt[1] # 0

\* if filter_type == 'high-usage' and data['total_duration'] < 300: continue
\* if filter_type == 'high-cost' and data['total_cost'] < 50: continue
Filtered(day, filter_type) ==
    \/ filter_type = "high-usage" /\ day.total_duration < 300
    \/ filter_type = "high-cost" /\ day.total_cost < 5000

\* The days print_timeline_table prints rows for, in order
DatesToShow(daily, filter_type, sort_by, limit) ==
    IF sort_by # "none"
    THEN LET sorted == IF sort_by = "cost" THEN SortedByCost(daily)
                       ELSE IF sort_by = "duration" THEN SortedByDuration(daily)
                       ELSE <<>>
         IN IF Truthy(limit) THEN PySlicePrefix(sorted, limit[1]) ELSE sorted
    ELSE LET Passes(day) == ~Filtered(day, filter_type)
         IN SelectSeq(SortedByDate(daily), Passes)

\* print_timeline_table
print_timeline_table(daily, filter_type, sort_by, limit) ==
    IF daily = <<>> THEN Printed(<<[kind |-> "no_data"]>>)
    ELSE Then(Printed(<<[kind |-> "table_header"]>>),
         Then(PrintRowsFrom(DatesToShow(daily, filter_type, sort_by, limit), 1),
              Printed(<<[kind |-> "table_end"]>>)))

\* print_daily_detail
print_daily_detail(bs, daily, date) ==
    IF ~HasKey(daily, date) THEN Printed(<<[kind |-> "no_data_date", date |-> date]>>)
    ELSE LET data == daily[KeyIndex(daily, date)]
             bar == TimelineBar(data.blocks, DefaultWidth)
         IN Then(print_header(bs),
            Then(Printed(<<[kind |-> "detail_title", date |-> date,
                            weekday |-> get_weekday(date)]>>),
            Then(Printed([i \in 1..Len(data.blocks) |->
                            [kind |-> "detail_block",
                             hour |-> data.blocks[i].start_time.hour,
                             minute |-> data.blocks[i].start_time.minute,
                             duration_minutes |-> data.blocks[i].duration_minutes,
                             models |-> data.blocks[i].models,
                             total_tokens |-> data.blocks[i].total_tokens,
                             cost_usd |-> data.blocks[i].cost_usd,
                             entries |-> data.blocks[i].entries]]),
            Then(Printed(<<[kind |-> "detail_total",
                            total_duration |-> data.total_duration,
                            total_tokens |-> data.total_tokens,
                            cost_color |-> get_cost_color(data.total_cost),
                            total_cost |-> data.total_cost],
                           [kind |-> "timeline_title"]>>),
                 IF bar.raised THEN RaisedAfter(<<>>)
                 ELSE Printed(<<[kind |-> "timeline",
                                 timeline_bar |-> MarkTimeline(bar.timeline)]>>)))))

----------------------------------------------------------------------------
(* print_model_summary and the current-session line *)

Perms(S) == {f \in [1..Cardinality(S) -> S] : \A i, j \in DOMAIN f : f[i] = f[j] => i = j}

IsNew(acc, x) == \A i \in 1..Len(acc) : acc[i] # x

AppendNew(acc, perm) ==
    LET New(x) == IsNew(acc, x) IN acc \o SelectSeq(perm, New)

\* The key orders a dict can get when it is filled by
\*   for block in bs: for model in block.models: ...
\* block.models is list(set(...)), whose order the language leaves open
RECURSIVE InsertionOrdersFrom(_, _, _)
InsertionOrdersFrom(bs, i, acc) ==
    IF i > Len(bs) THEN {acc}
    ELSE UNION {InsertionOrdersFrom(bs, i + 1, AppendNew(acc, perm)) :
                  perm \in Perms(bs[i].models)}

ModelInsertionOrders(bs) == InsertionOrdersFrom(bs, 1, <<>>)

BlocksUsing(bs, model) ==
    LET Uses(b) == model \in b.models IN SelectSeq(bs, Uses)

\* model_stats[model]
ModelStats(bs, model) ==
    LET using == BlocksUsing(bs, model) IN
    [kind |-> "model_row", model |-> model, count |-> Len(using),
     duration |-> SeqSum([i \in 1..Len(using) |-> using[i].duration_minutes]),
     tokens |-> SeqSum([i \in 1..Len(using) |-> using[i].total_tokens]),
     cost |-> SeqSum([i \in 1..Len(using) |-> using[i].cost_usd])]

\* print_model_summary, model_stats having the key order `order`
print_model_summary(bs, order) ==
    LET s == SortedReverse([k \in 1..Len(order) |->
                              [key |-> ModelStats(bs, order[k]).cost,
                               value |-> ModelStats(bs, order[k])]])
    IN Printed(<<[kind |-> "model_title"]>> \o [k \in 1..Len(s) |-> s[k].value]
               \o <<[kind |-> "model_end"]>>)

MAX_TOKENS_5H == 58679737

MinuteOf(d, h, m) == (d * 24 + h) * 60 + m

\* block_start_time: today at hour (current_hour // 5) * 5, in minutes
BlockStartTime(t) == MinuteOf(t.d, (t.h \div 5) * 5, 0)

\* reset_time: today at hour block_end_hour % 24, a day later when
\* block_end_hour >= 24
ResetTime(t) ==
    LET block_end_hour == (t.h \div 5) * 5 + 5 IN
    MinuteOf(t.d + (IF block_end_hour >= 24 THEN 1 ELSE 0), block_end_hour % 24, 0)

\* current_block_sessions
CurrentBlockSessions(bs, t) ==
    LET InWindow(b) ==
            LET block_time == MinuteOf(b.start_time.date, b.start_time.hour,
                                       b.start_time.minute)
            IN block_time >= BlockStartTime(t) /\ block_time < ResetTime(t)
    IN SelectSeq(bs, InWindow)

\* max(model_counts.items(), key=lambda x: x[1])[0]: the first key, in the
\* dict's order, with the largest count
PrimaryModel(sessions, order) ==
    IF order = <<>> THEN <<"N/A">>
    ELSE LET count(k) == Len(BlocksUsing(sessions, order[k]))
             first == CHOOSE k \in 1..Len(order) :
                        /\ \A j \in 1..Len(order) : count(j) <= count(k)
                        /\ \A j \in 1..(k - 1) : count(j) < count(k)
         IN order[first]

\* get_current_session_info, model_counts having the key order `order`
get_current_session_info(bs, t, order) ==
    LET sessions == CurrentBlockSessions(bs, t)
        total_tokens == SeqSum([i \in 1..Len(sessions) |-> sessions[i].total_tokens])
        remaining == (ResetTime(t) - MinuteOf(t.d, t.h, t.m)) * 60 - t.s
    IN [model |-> PrimaryModel(sessions, order),
        total_cost |-> SeqSum([i \in 1..Len(sessions) |-> sessions[i].cost_usd]),
        total_tokens |-> total_tokens,
        max_tokens |-> MAX_TOKENS_5H,
        usage_permille |-> (total_tokens * 1000) \div MAX_TOKENS_5H,
        reset_time |-> [hour |-> (ResetTime(t) \div 60) % 24, minute |-> 0],
        hours_remaining |-> remaining \div 3600,
        minutes_remaining |-> (remaining % 3600) \div 60,
        session_count |-> Len(sessions)]

\* print_current_session_line
print_current_session_line(bs, t, order) ==
    LET info == get_current_session_info(bs, t, order) IN
    Printed(<<[kind |-> "current", info |-> info,
               usage_color |-> IF info.usage_permille >= 800 THEN "RED"
                               ELSE IF info.usage_permille >= 500 THEN "YELLOW"
                               ELSE "GREEN"]>>)

----------------------------------------------------------------------------
(* main *)

NoLimit == <<>>

\* filter_type and sort_by as main derives them from the flags
FilterType(a) ==
    IF a.high_usage THEN "high-usage" ELSE IF a.high_cost THEN "high-cost" ELSE "all"

SortBy(a) ==
    IF a.sort_cost THEN "cost" ELSE IF a.sort_duration THEN "duration" ELSE "none"

\* limit = args.limit if args.limit else (10 if sort_by else None)
TableLimit(a) ==
    IF Truthy(a.limit) THEN a.limit
    ELSE IF SortBy(a) # "none" THEN <<10>> ELSE NoLimit

\* The process ends: by a return of main (exit code 0), or by an exception
\* nothing catches, which the interpreter reports on the error stream
\* before it exits with code 1
Finish(r) ==
    /\ stdout' = stdout \o r.out
    /\ stderr' = IF r.raised THEN <<[kind |-> "traceback"]>> ELSE stderr
    /\ exit_code' = IF r.raised THEN 1 ELSE 0
    /\ pc' = "exit"

\* Mutant of ReadFails: the diagnostic goes to standard output
ReadFailsOnStdout(what) ==
    /\ pc = "read"
    /\ stdout' = <<[kind |-> "error", what |-> what]>>
    /\ exit_code' = 1
    /\ pc' = "exit"
    /\ UNCHANGED <<json_data, viewerVars, barVars, args, source, now, stderr>>

\* except ...: print(..., file=sys.stderr); sys.exit(1)
ReadFails(what) ==
    /\ pc = "read"
    /\ stderr' = <<[kind |-> "error", what |-> what]>>
    /\ exit_code' = 1
    /\ pc' = "exit"
    /\ UNCHANGED <<json_data, viewerVars, barVars, args, source, now, stdout>>

ReadInvalidJson == source.kind = "invalid" /\ ReadFails("JSONDecodeError")

ReadFileNotFound ==
    args.file /\ source.kind = "missing" /\ ReadFails("FileNotFoundError")

ReadOtherError == source.kind = "unreadable" /\ ReadFails("Exception")

\* json.load returned
ReadJson ==
    /\ pc = "read"
    /\ source.kind \in {"object", "no_blocks_key", "not_object"}
    /\ pc' = "load"
    /\ UNCHANGED <<json_data, viewerVars, barVars, args, source, now, stdout,
                   stderr, exit_code>>

\* viewer = ClaudeCodeViewer(...); viewer.load_from_json(json_data), which
\* is outside the try: an exception of it is caught by nothing
MainLoad ==
    /\ pc = "load"
    /\ IF source.kind = "not_object"
       THEN /\ UNCHANGED <<json_data, daily_data>>
            /\ blocks' = <<>>
            /\ loadResult' = "AttributeError"
       ELSE load_from_json(IF source.kind = "object" THEN source.blocks ELSE <<>>)
    /\ IF loadResult' = "returned"
       THEN pc' = "view" /\ UNCHANGED <<stdout, stderr, exit_code>>
       ELSE Finish(RaisedAfter(<<>>))
    /\ UNCHANGED <<barVars, args, source, now>>

ViewUnchanged == UNCHANGED <<json_data, viewerVars, barVars, args, source, now>>

\* if args.current: viewer.print_current_session_line(); return
ViewCurrent ==
    /\ pc = "view"
    /\ args.current
    /\ \E order \in ModelInsertionOrders(CurrentBlockSessions(blocks, now)) :
          Finish(print_current_session_line(blocks, now, order))
    /\ ViewUnchanged

\* if args.date: viewer.print_daily_detail(args.date); return
ViewDate ==
    /\ pc = "view"
    /\ ~args.current
    /\ args.date # <<>>
    /\ Finish(print_daily_detail(blocks, daily_data, args.date[1]))
    /\ ViewUnchanged

\* if args.model_summary: print_header(); print_model_summary(); return
ViewModelSummary ==
    /\ pc = "view"
    /\ ~args.current
    /\ args.date = <<>>
    /\ args.model_summary
    /\ \E order \in ModelInsertionOrders(blocks) :
          Finish(Then(print_header(blocks), print_model_summary(blocks, order)))
    /\ ViewUnchanged

\* if args.summary: print_header(); print_stats(); return
ViewSummary ==
    /\ pc = "view"
    /\ ~args.current
    /\ args.date = <<>>
    /\ ~args.model_summary
    /\ args.summary
    /\ Finish(Then(print_header(blocks), print_stats(blocks, daily_data)))
    /\ ViewUnchanged

\* The default view: header, stats, legend unless --no-legend, table
ViewDefault ==
    /\ pc = "view"
    /\ ~args.current
    /\ args.date = <<>>
    /\ ~args.model_summary
    /\ ~args.summary
    /\ Finish(Then(print_header(blocks),
              Then(print_stats(blocks, daily_data),
              Then(IF args.no_legend THEN Printed(<<>>) ELSE print_legend,
                   print_timeline_table(daily_data, FilterType(args), SortBy(args),
                                      TableLimit(args))))))
    /\ ViewUnchanged

----------------------------------------------------------------------------
(* The timeline specification: a viewer is loaded once, then asked for bars *)

BarBlockData ==
    { BD("p1", FALSE, TS(1, 0, 0, 0), TS(1, 1, 0, 0), <<>>,
         1, 1000, 500, <<Opus>>),
      BD("p2", FALSE, TS(1, 0, 30, 0), TS(1, 5, 30, 0), <<TS(1, 1, 15, 0)>>,
         1, 10, 20, <<Sonnet, Sonnet>>),
      BD("p3", FALSE, TS(1, 5, 45, 0), TS(1, 10, 45, 0), <<TS(1, 7, 15, 0)>>,
         1, 10, 20, <<Sonnet, Opus>>),
      BD("p4", FALSE, TS(2, 23, 30, 0), TS(3, 4, 30, 0), <<>>,
         1, 10, 20, <<Synthetic>>),
      BD("p5", FALSE, TS(1, 6, 15, 30), TS(1, 11, 0, 0), <<TS(1, 6, 14, 0)>>,
         1, 10, 20, <<Other>>),
      BD("p6", FALSE, TS(1, 12, 0, 0), TS(1, 17, 0, 0), <<TS(1, 12, 40, 0)>>,
         1, 10, 20, <<>>) }

BarInputs == SeqsUpTo(BarBlockData, MaxBarBlocks)

Widths == {0, 1, 13, 24, DefaultWidth, 60}

LoadBar ==
    /\ loadResult = "none"
    /\ \E data \in BarInputs : load_from_json(data)
    /\ UNCHANGED <<barVars, mainVars>>

Bar ==
    /\ loadResult = "returned"
    /\ \E k \in 1..Len(daily_data), width \in Widths :
          get_timeline_bar(daily_data[k].blocks, width)
    /\ UNCHANGED <<json_data, viewerVars, session_calls, mainVars>>

NextBar == LoadBar \/ Bar

SpecBar == Init /\ [][NextBar]_vars

----------------------------------------------------------------------------
(* The session specification: a viewer is loaded once, then asked for the *)
(* current session at one time after another                               *)

SessionBlockData ==
    { BD("q1", FALSE, TS(2, 0, 30, 0), TS(2, 5, 30, 0), <<>>,
         1, 1000, 500, <<Opus>>),
      BD("q2", FALSE, TS(1, 22, 0, 0), TS(2, 3, 0, 0), <<TS(1, 23, 0, 0)>>,
         2, 700, 125, <<Sonnet>>),
      BD("q3", FALSE, TS(1, 3, 0, 0), TS(1, 8, 0, 0), <<TS(1, 4, 0, 0)>>,
         3, 40, 7, <<Sonnet, Opus>>) }

SessionInputs == SeqsUpTo(SessionBlockData, MaxMainBlocks)

SessionNows ==
    {TS(d, 0, 30, 0) : d \in 1..2} \cup {TS(d, 4, 59, 59) : d \in 1..2}
    \cup {TS(d, 5, 0, 0) : d \in 1..2} \cup {TS(d, 20, 0, 0) : d \in 1..2}
    \cup {TS(d, 23, 59, 30) : d \in 1..2}

LoadSession ==
    /\ loadResult = "none"
    /\ \E data \in SessionInputs : load_from_json(data)
    /\ UNCHANGED <<barVars, mainVars>>

\* viewer.get_current_session_info() at the time t
CurrentSession ==
    /\ loadResult = "returned"
    /\ Len(session_calls) < MaxCalls
    /\ \E t \in SessionNows :
         \E order \in ModelInsertionOrders(CurrentBlockSessions(blocks, t)) :
            /\ now' = t
            /\ session_calls' = Append(session_calls,
                  [now |-> t,
                   block_start_time |-> BlockStartTime(t),
                   reset_time |-> ResetTime(t),
                   current_block_sessions |-> CurrentBlockSessions(blocks, t),
                   info |-> get_current_session_info(blocks, t, order)])
    /\ UNCHANGED <<json_data, viewerVars, bar_blocks, bar_width, timeline,
                   marked_timeline, bar_chars, barResult, args, source, pc,
                   stdout, stderr, exit_code>>

NextSession == LoadSession \/ CurrentSession

SpecSession == Init /\ [][NextSession]_vars

----------------------------------------------------------------------------
(* The process specification: one run of main, from the parsed command    *)
(* line and whatever the input holds                                       *)

BaseArgs ==
    [file |-> FALSE, current |-> FALSE, date |-> <<>>, model_summary |-> FALSE,
     summary |-> FALSE, no_legend |-> FALSE, high_usage |-> FALSE,
     high_cost |-> FALSE, sort_cost |-> FALSE, sort_duration |-> FALSE,
     limit |-> NoLimit]

\* The view main dispatches to
View(a) ==
    IF a.current THEN "current"
    ELSE IF a.date # <<>> THEN "date"
    ELSE IF a.model_summary THEN "model_summary"
    ELSE IF a.summary THEN "summary"
    ELSE "default"

MainArgs ==
    {[BaseArgs EXCEPT !.file = f, !.current = c, !.date = d,
                      !.model_summary = ms, !.summary = su, !.no_legend = nl] :
        f \in BOOLEAN, c \in BOOLEAN, d \in {<<>>, <<1>>, <<40>>},
        ms \in BOOLEAN, su \in BOOLEAN, nl \in BOOLEAN}

MainBlockData ==
    { BD("m1", FALSE, TS(1, 2, 0, 0), TS(1, 7, 0, 0), <<TS(1, 3, 0, 0)>>,
         3, 1000, 500, <<Opus>>),
      BD("m2", FALSE, TS(1, 4, 30, 0), TS(1, 9, 30, 0), <<>>,
         2, 700, 500, <<Sonnet, Opus>>),
      BD("mg", TRUE, TS(1, 7, 0, 0), TS(2, 2, 0, 0), <<>>,
         0, 0, 0, <<>>),
      Without(BD("mk", FALSE, TS(2, 12, 0, 0), TS(2, 17, 0, 0),
                 <<TS(2, 12, 45, 59)>>, 5, 90, 33, <<Other>>), "models"),
      BD("me", FALSE, TS(2, 12, 0, 0), TS(2, 17, 0, 0), <<TS(2, 12, 40, 0)>>,
         1, 10, 20, <<>>) }

MainSources ==
    {[kind |-> k, blocks |-> <<>>] :
        k \in {"invalid", "missing", "unreadable", "not_object", "no_blocks_key"}}
    \cup {[kind |-> "object", blocks |-> data] :
            data \in SeqsUpTo(MainBlockData, MaxMainBlocks)}

Nows == {TS(1, 3, 20, 15), TS(1, 22, 10, 0)}

InitProcess ==
    /\ pc = "read"
    /\ stdout = <<>>
    /\ stderr = <<>>
    /\ exit_code = -1

InitMain ==
    /\ InitViewer
    /\ args \in MainArgs
    /\ source \in MainSources
    /\ source.kind = "missing" => args.file
    /\ now \in Nows
    /\ InitProcess

NextMain ==
    \/ ReadInvalidJson
    \/ ReadFileNotFound
    \/ ReadOtherError
    \/ ReadJson
    \/ MainLoad
    \/ ViewCurrent
    \/ ViewDate
    \/ ViewModelSummary
    \/ ViewSummary
    \/ ViewDefault

SpecMain == InitMain /\ [][NextMain]_vars

----------------------------------------------------------------------------
(* The table specification: runs of main that end in the day table, on    *)
(* inputs of up to MaxDays days                                            *)

\* The block of the i-th day of a table input: the dates do not come in
\* date order, and costs and durations repeat
DayBlock(i, pattern) ==
    LET minutes == IF pattern = 1 THEN 150 * (i % 4)
                   ELSE IF pattern = 2 THEN 300
                   ELSE 31 * i
        cost == IF pattern = 1 THEN 2500 * (i % 3)
                ELSE IF pattern = 2 THEN 1000
                ELSE 700 * i
        date == ((i * 5) % 13) + 1
    IN BD("t", FALSE, TS(date, 8, 0, 0), TS(date, 13, 0, 0),
          <<TS(date, 8 + (minutes \div 60), minutes % 60, 0)>>,
          i, 100 * i, cost, IF i % 2 = 1 THEN <<Opus>> ELSE <<Sonnet>>)

TableSources ==
    {[kind |-> "object", blocks |-> [i \in 1..n |-> DayBlock(i, pattern)]] :
        n \in 0..MaxDays, pattern \in 1..3}
    \cup {[kind |-> "object", blocks |-> data] :
            data \in SeqsUpTo(MainBlockData, MaxMainBlocks)}

Limits == {NoLimit} \cup {<<n>> : n \in {-1, 0, 1, 2, 10, MaxDays}}

TableArgs ==
    {[BaseArgs EXCEPT !.high_usage = (f = "high-usage"),
                      !.high_cost = (f = "high-cost"),
                      !.sort_cost = (o = "cost"),
                      !.sort_duration = (o = "duration"),
                      !.limit = l] :
        f \in {"all", "high-usage", "high-cost"},
        o \in {"none", "cost", "duration"}, l \in Limits}

InitTable ==
    /\ InitViewer
    /\ args \in TableArgs
    /\ source \in TableSources
    /\ now = TS(1, 0, 0, 0)
    /\ InitProcess

NextTable == ReadJson \/ MainLoad \/ ViewDefault

SpecTable == InitTable /\ [][NextTable]_vars

----------------------------------------------------------------------------
(* Properties of load_from_json and _group_by_date (specification Spec) *)

IsNotGap(bd) == ~bd.isGap

NonGapInput == SelectSeq(json_data, IsNotGap)

SumOver(s, F(_)) == SeqSum([i \in 1..Len(s) |-> F(s[i])])

DayDuration(day) == day.total_duration
DayCost(day) == day.total_cost
DayTokens(day) == day.total_tokens
DayEntries(day) == day.total_entries

BlockDuration(b) == b.duration_minutes
BlockCost(b) == b.cost_usd
BlockTokens(b) == b.total_tokens
BlockEntries(b) == b.entries

\* The metrics read off an input record, without the Block in between
InputSeconds(bd) ==
    LET end == IF bd.actualEndTime = <<>> THEN bd.endTime
               ELSE bd.actualEndTime[1]
    IN (end.d - bd.startTime.d) * 86400 + (end.h - bd.startTime.h) * 3600
       + (end.m - bd.startTime.m) * 60 + (end.s - bd.startTime.s)

\* q is n / 60 with the fraction dropped, whatever the sign of n
IsTruncatedMinutes(q, n) ==
    /\ n >= 0 => (60 * q <= n /\ n < 60 * q + 60)
    /\ n < 0 => (60 * q >= n /\ n > 60 * q - 60)

InputMinutes(bd) == CHOOSE q \in -3000..3000 : IsTruncatedMinutes(q, InputSeconds(bd))
InputCost(bd) == bd.costUSD
InputTokens(bd) == bd.totalTokens
InputEntries(bd) == bd.entries

\* C1: after a load_from_json that returned, the per-day totals of each of
\* the four metrics add up to the metric's sum over the non-gap blocks of
\* the input; and always each day's totals are the sums over the day's own
\* block list.
C1_TotalsMatch ==
    /\ loadResult = "returned" =>
        /\ SumOver(daily_data, DayDuration) = SumOver(NonGapInput, InputMinutes)
        /\ SumOver(daily_data, DayCost) = SumOver(NonGapInput, InputCost)
        /\ SumOver(daily_data, DayTokens) = SumOver(NonGapInput, InputTokens)
        /\ SumOver(daily_data, DayEntries) = SumOver(NonGapInput, InputEntries)
    /\ \A k \in 1..Len(daily_data) :
        /\ daily_data[k].total_duration = SumOver(daily_data[k].blocks, BlockDuration)
        /\ daily_data[k].total_cost = SumOver(daily_data[k].blocks, BlockCost)
        /\ daily_data[k].total_tokens = SumOver(daily_data[k].blocks, BlockTokens)
        /\ daily_data[k].total_entries = SumOver(daily_data[k].blocks, BlockEntries)

\* Two non-gap blocks of one day were loaded and grouped
C1_Witness ==
    /\ loadResult = "returned"
    /\ Len(NonGapInput) = 2
    /\ Len(daily_data) = 1
    /\ Len(daily_data[1].blocks) = 2
    /\ daily_data[1].total_cost = 625

\* The day's blocks that are not gaps
NonGapBlocks(day) ==
    LET NotGap(b) == ~b.is_gap IN SelectSeq(day.blocks, NotGap)

\* C2: no gap block is in self.blocks or in a day's block list, and every
\* day's totals and model set come from its non-gap blocks alone.
C2_NoGapBlocks ==
    /\ \A i \in 1..Len(blocks) : ~blocks[i].is_gap
    /\ \A k \in 1..Len(daily_data) :
        /\ \A i \in 1..Len(daily_data[k].blocks) : ~daily_data[k].blocks[i].is_gap
        /\ daily_data[k].total_duration = SumOver(NonGapBlocks(daily_data[k]), BlockDuration)
        /\ daily_data[k].total_cost = SumOver(NonGapBlocks(daily_data[k]), BlockCost)
        /\ daily_data[k].total_tokens = SumOver(NonGapBlocks(daily_data[k]), BlockTokens)
        /\ daily_data[k].total_entries = SumOver(NonGapBlocks(daily_data[k]), BlockEntries)
        /\ daily_data[k].models =
             UNION {NonGapBlocks(daily_data[k])[i].models :
                      i \in 1..Len(NonGapBlocks(daily_data[k]))}
    /\ loadResult = "returned" => Len(blocks) = Len(NonGapInput)

\* An input with a gap record and a non-gap record was loaded
C2_Witness ==
    /\ loadResult = "returned"
    /\ \E i \in 1..Len(json_data) : json_data[i].isGap
    /\ Len(blocks) = 1
    /\ Len(daily_data) = 1

\* The input records the blocks of self.blocks were made from, in order
LoadedInput == SubSeq(NonGapInput, 1, Len(blocks))

\* C6 as stated: duration_minutes is the floor of the seconds over 60
C6_DurationIsFloor ==
    \A i \in 1..Len(blocks) :
        blocks[i].duration_minutes = InputSeconds(LoadedInput[i]) \div 60

\* C6, amended: duration_minutes is (end - start) in seconds over 60 with the
\* fraction dropped (rounded toward zero), end being the actual end time
\* when present and the scheduled one otherwise; nothing is clamped.
C6_DurationIsTruncated ==
    \A i \in 1..Len(blocks) :
        IsTruncatedMinutes(blocks[i].duration_minutes, InputSeconds(LoadedInput[i]))

\* A block whose actual end lies 90 seconds before its start was loaded
C6_Witness ==
    \E i \in 1..Len(blocks) :
        /\ InputSeconds(LoadedInput[i]) = -90
        /\ blocks[i].duration_minutes = -1

\* The blocks of self.blocks that start on the date, in their order
BlocksOn(date_str) ==
    LET StartsOn(b) == b.start_time.date = date_str IN SelectSeq(blocks, StartsOn)

\* C11: after any sequence of load_from_json calls, one that aborts on a
\* record lacking a key included, self.blocks holds blocks of the last
\* call's input only, and daily_data is the grouping of self.blocks: each
\* key's list is the blocks of self.blocks starting on that date, in order,
\* and every block's date is a key.
C11_GroupingOfBlocks ==
    /\ Len(blocks) <= Len(NonGapInput)
    /\ \A i \in 1..Len(blocks) :
        /\ blocks[i].id = LoadedInput[i].id
        /\ blocks[i].start_time.date = LoadedInput[i].startTime.d
        /\ HasKey(daily_data, blocks[i].start_time.date)
    /\ \A k \in 1..Len(daily_data) :
        /\ daily_data[k].blocks # <<>>
        /\ daily_data[k].blocks = BlocksOn(daily_data[k].date)
        /\ \A j \in 1..Len(daily_data) : daily_data[j].date = daily_data[k].date => j = k

----------------------------------------------------------------------------
(* Properties of _get_timeline_bar (specification SpecBar) *)

DataGlyphs == {"opus", "sonnet", "mixed", "synthetic"}

\* C3: a call that returns yields exactly `width` glyph positions; every
\* position i with i mod 12 = 0 shows the marker, every other position the
\* empty glyph or a data glyph.
C3_WidthAndMarkers ==
    barResult = "returned" =>
        /\ Len(marked_timeline) = bar_width
        /\ \A i \in 0..(bar_width - 1) :
            /\ i % 12 = 0 => marked_timeline[i + 1] = "marker"
            /\ i % 12 # 0 => marked_timeline[i + 1] \in DataGlyphs \cup {"empty"}

\* A bar of the default width whose slot 12 held a data glyph under the marker
C3_Witness ==
    /\ barResult = "returned"
    /\ bar_width = DefaultWidth
    /\ timeline[13] \in DataGlyphs
    /\ marked_timeline[13] = "marker"
    /\ marked_timeline[12] \in DataGlyphs

\* The glyph the claim gives a block with these simplified models
ClaimedGlyph(models) ==
    IF Cardinality(models) > 1 THEN "mixed"
    ELSE IF \E m \in models : Contains(m, "synthetic") THEN "synthetic"
    ELSE IF \E m \in models : Contains(m, "sonnet") THEN "sonnet"
    ELSE "opus"

\* C4: every call of _get_timeline_bar on loaded blocks returns, having
\* chosen for each block the mixed glyph for more than one simplified model,
\* else the synthetic or sonnet glyph by the first model name, else opus.
C4_GlyphForEveryBlock ==
    barResult # "none" =>
        /\ barResult = "returned"
        /\ Len(bar_chars) = Len(bar_blocks)
        /\ \A i \in 1..Len(bar_chars) :
              bar_chars[i] = ClaimedGlyph(bar_blocks[i].models)

\* Slot s (from 0) lies in the block's range as the claim states it
Covers(block, s) ==
    LET start == (block.start_time.hour * 60 + block.start_time.minute) \div 30
        span == Max2(1, block.duration_minutes \div 30)
    IN start <= s /\ s < start + span

SetMax(S) == CHOOSE x \in S : \A y \in S : y <= x

\* C5: before the overlay each slot below the width holds the glyph of the
\* last block of the list covering it, or the empty glyph when none does;
\* a single 60-minute block starting 00:00 fills slots 0 and 1 and slot 0
\* is then shown as the marker.
C5_LastBlockWins ==
    barResult = "returned" =>
        /\ Len(timeline) = bar_width
        /\ \A s \in 0..(bar_width - 1) :
              LET cover == {i \in 1..Len(bar_blocks) : Covers(bar_blocks[i], s)}
              IN timeline[s + 1] =
                    IF cover = {} THEN "empty" ELSE bar_chars[SetMax(cover)]
        /\ ( /\ Len(bar_blocks) = 1
             /\ bar_blocks[1].start_time.hour = 0
             /\ bar_blocks[1].start_time.minute = 0
             /\ bar_blocks[1].duration_minutes = 60
             /\ bar_width >= 2 )
           => /\ timeline[1] = bar_chars[1]
              /\ timeline[2] = bar_chars[1]
              /\ \A s \in 3..bar_width : timeline[s] = "empty"
              /\ marked_timeline[1] = "marker"
              /\ marked_timeline[2] = bar_chars[1]

\* Two blocks with different glyphs both cover slot 1, which shows the later
C5_Witness ==
    /\ barResult = "returned"
    /\ bar_width = DefaultWidth
    /\ Len(bar_blocks) = 2
    /\ Covers(bar_blocks[1], 1)
    /\ Covers(bar_blocks[2], 1)
    /\ bar_chars[1] = "sonnet"
    /\ bar_chars[2] = "opus"
    /\ timeline[2] = "opus"

----------------------------------------------------------------------------
(* Properties of the day table (specification SpecTable) *)

IsRow(line) == line.kind = "row"

\* The day rows on standard output, in the order printed
Rows == SelectSeq(stdout, IsRow)

TableShown == pc = "exit" /\ loadResult = "returned" /\ View(args) = "default"

\* C7: with the cost order the rows come in non-increasing total_cost, rows
\* of equal total_cost in the order their keys entered daily_data, and the
\* first row is the first-inserted day of maximum total_cost.
C7_CostOrder ==
    (TableShown /\ SortBy(args) = "cost") =>
        /\ \A i, j \in 1..Len(Rows) :
              i < j =>
                /\ Rows[i].total_cost >= Rows[j].total_cost
                /\ Rows[i].total_cost = Rows[j].total_cost =>
                      KeyIndex(daily_data, Rows[i].date) < KeyIndex(daily_data, Rows[j].date)
        /\ Rows # <<>> =>
              \A k \in 1..Len(daily_data) :
                /\ daily_data[k].total_cost <= Rows[1].total_cost
                /\ daily_data[k].total_cost = Rows[1].total_cost =>
                      KeyIndex(daily_data, Rows[1].date) <= k

\* Rows of equal cost were printed with the later date first, after a row
\* of higher cost
C7_Witness ==
    /\ TableShown
    /\ SortBy(args) = "cost"
    /\ \E i \in 1..(Len(Rows) - 1) : Rows[i].total_cost > Rows[i + 1].total_cost
    /\ \E i \in 1..(Len(Rows) - 1) :
          /\ Rows[i].total_cost = Rows[i + 1].total_cost
          /\ Rows[i].date > Rows[i + 1].date

\* C8: with a sort order at most N rows are printed for every --limit N
\* (none for N <= 0) and at most 10 without --limit; without a sort order
\* the rows are the days that pass the filter, whatever --limit says.
C8_LimitCapsRows ==
    TableShown =>
        /\ (SortBy(args) # "none" /\ args.limit # NoLimit) =>
              Len(Rows) <= Max2(args.limit[1], 0)
        /\ (SortBy(args) # "none" /\ args.limit = NoLimit) => Len(Rows) <= 10
        /\ (SortBy(args) = "none" /\ exit_code = 0) =>
              {Rows[i].date : i \in 1..Len(Rows)} =
              {daily_data[k].date : k \in {j \in 1..Len(daily_data) :
                                             ~Filtered(daily_data[j], FilterType(args))}}

----------------------------------------------------------------------------
(* Properties of one run of main (specification SpecMain) *)

\* The input makes the load fail: no JSON, no file, no object, or a block
\* record lacking a key that load_from_json looks up in it
FatalLoadFailure ==
    \/ source.kind \in {"invalid", "missing", "unreadable", "not_object"}
    \/ \E i \in 1..Len(source.blocks) : Raises(source.blocks[i])

\* C9: a run whose load fails ends with exit code 1, a diagnostic on the
\* error stream and nothing on standard output.
C9_FatalLoadFailure ==
    /\ FatalLoadFailure => pc \in {"read", "load", "exit"}
    /\ (FatalLoadFailure /\ pc = "exit") =>
        /\ exit_code = 1
        /\ stderr # <<>>
        /\ stdout = <<>>

\* A run ended on a record lacking a key, after a complete record
C9_Witness ==
    /\ pc = "exit"
    /\ Len(source.blocks) = 2
    /\ ~Raises(source.blocks[1])
    /\ ~source.blocks[1].isGap
    /\ Raises(source.blocks[2])
    /\ exit_code = 1
    /\ stderr = <<[kind |-> "traceback"]>>
    /\ stdout = <<>>

\* The data the dispatched view asks for is absent
NoDataCase ==
    /\ pc = "exit"
    /\ loadResult = "returned"
    /\ \/ blocks = <<>>
       \/ View(args) = "date" /\ ~HasKey(daily_data, args.date[1])

HasNotice == \E i \in 1..Len(stdout) : stdout[i].kind \in {"no_data", "no_data_date"}

\* C10 as stated: whatever the view, a "no data" notice and exit code 0
C10_NoDataNotice ==
    NoDataCase => (exit_code = 0 /\ stderr = <<>> /\ HasNotice)

Kinds == [i \in 1..Len(stdout) |-> stdout[i].kind]

\* C10, amended: exit code 0 and nothing raised for every view; a "no data"
\* notice from the default view (one from the stats, one from the table),
\* from --summary and from --date; from --model-summary the header and an
\* empty model table; from --current the status line with model N/A and
\* zero totals.
C10_NoDataHandled ==
    NoDataCase =>
        /\ exit_code = 0
        /\ stderr = <<>>
        /\ View(args) = "default" =>
              Kinds = IF args.no_legend THEN <<"title", "no_data", "no_data">>
                      ELSE <<"title", "no_data", "legend", "no_data">>
        /\ View(args) = "summary" => Kinds = <<"title", "no_data">>
        /\ View(args) = "date" =>
              stdout = <<[kind |-> "no_data_date", date |-> args.date[1]]>>
        /\ View(args) = "model_summary" =>
              Kinds = <<"title", "model_title", "model_end">>
        /\ View(args) = "current" =>
              /\ Kinds = <<"current">>
              /\ stdout[1].info.model = <<"N/A">>
              /\ stdout[1].info.session_count = 0
              /\ stdout[1].info.total_tokens = 0
              /\ stdout[1].info.total_cost = 0

\* The default view ran on an input whose only record is a gap
C10_Witness ==
    /\ NoDataCase
    /\ View(args) = "default"
    /\ Len(source.blocks) = 1
    /\ source.blocks[1].isGap
    /\ exit_code = 0
    /\ Kinds = <<"title", "no_data", "legend", "no_data">>

----------------------------------------------------------------------------
(* Properties of get_current_session_info (specification SpecSession) *)

\* The window of a call, in minutes: [from, to)
SameWindow(c1, c2) ==
    c1.block_start_time = c2.block_start_time /\ c1.reset_time = c2.reset_time

DisjointWindows(c1, c2) ==
    c1.reset_time <= c2.block_start_time \/ c2.reset_time <= c1.block_start_time

\* Each call's window starts today at hour floor(hour / 5) * 5, lasts five
\* hours and holds the current time
WindowShape ==
    \A i \in 1..Len(session_calls) :
        LET c == session_calls[i]
            t == (c.now.d * 24 + c.now.h) * 60 + c.now.m
        IN /\ c.block_start_time = (c.now.d * 24 + 5 * (c.now.h \div 5)) * 60
           /\ c.reset_time = c.block_start_time + 300
           /\ c.block_start_time <= t
           /\ t < c.reset_time

\* C12: the windows have the stated shape, the windows of any two calls
\* are identical or disjoint, and a block counted in the sessions of two
\* calls is counted in one and the same window.
C12_WindowsDoNotOverlap ==
    /\ WindowShape
    /\ \A i, j \in 1..Len(session_calls) :
        LET c1 == session_calls[i]
            c2 == session_calls[j]
        IN /\ SameWindow(c1, c2) \/ DisjointWindows(c1, c2)
           /\ \A a \in 1..Len(c1.current_block_sessions) :
              \A b \in 1..Len(c2.current_block_sessions) :
                 c1.current_block_sessions[a] = c2.current_block_sessions[b]
                    => SameWindow(c1, c2)

====
